---- MODULE Spec2Model ----
(***************************************************************************)
(* Model of the authentication router, backend/routes/auth.js:             *)
(* POST /signup, POST /signin and POST /signout, served concurrently by    *)
(* one Node process against the User collection.  Every await of a handler *)
(* is a point where other requests may run, so every handler is cut into   *)
(* one action per synchronous stretch.                                     *)
(***************************************************************************)
EXTENDS Integers, Sequences, FiniteSets, TLC

(* ---------------------------- bounds ----------------------------------- *)
\* requests received over a whole run, all of which may be in flight together
MaxRequests == 3
\* requests being handled at the same time
MaxInFlight == 2
\* faults (rejected store / bcrypt promises, asynchronous signing errors) per run
MaxFaults == 1
\* distinct random salts bcrypt.genSalt can return
NumSalts == 2

(* ------------------------ program constants ---------------------------- *)
MinPasswordLen == 6
SaltRounds == 10
ExpiresInHours == 24

Reqs == 1..MaxRequests

(* ------------------------------ inputs --------------------------------- *)
\* strings are sequences of characters, so that length and syntax are computed
Blank == <<" ">>
Ann == <<"A", "n", "n">>
E1 == <<"a", "@", "x", ".", "i", "o">>
E2 == <<"b", "@", "x", ".", "i", "o">>
BadEmail == <<"a", "x", ".", "i", "o">>
P1 == <<"s", "e", "c", "r", "e", "t", "1">>
Wrong == <<"w", "r", "o", "n", "g">>

\* a request body is a function from the fields that are present to their values
GoodSignup == [fullName |-> Ann, username |-> Ann, email |-> E1, password |-> P1]
GoodSignin == [email |-> E1, password |-> P1]

EmptyBody == [g \in {} |-> <<>>]
Without(b, f) == [g \in (DOMAIN b) \ {f} |-> b[g]]
With(b, f, v) == [g \in DOMAIN b |-> IF g = f THEN v ELSE b[g]]

SignupBodies ==
  { GoodSignup,
    [GoodSignup EXCEPT !.fullName = Blank, !.username = Blank, !.email = E2],
    Without(GoodSignup, "fullName"),
    With(GoodSignup, "username", <<>>),
    With(GoodSignup, "email", BadEmail),
    With(GoodSignup, "password", Wrong),
    EmptyBody }

SigninBodies ==
  { GoodSignin,
    With(GoodSignin, "email", E2),
    With(GoodSignin, "password", Wrong),
    With(GoodSignin, "email", BadEmail),
    Without(GoodSignin, "password"),
    EmptyBody }

(* --------------------------- express-validator ------------------------- *)
\* the validator reads a field as a string: a missing field reads as ''
Field(body, f) == IF f \in DOMAIN body THEN body[f] ELSE <<>>

Positions(s, c) == {i \in 1..Len(s) : s[i] = c}

\* validator.js isEmail: one '@', a non-empty local part, and a domain that
\* has a dot, non-empty labels and a top-level label of two characters or more
IsEmail(s) ==
  /\ Cardinality(Positions(s, "@")) = 1
  /\ Positions(s, " ") = {}
  /\ LET at == CHOOSE i \in Positions(s, "@") : TRUE
         dots == {i \in Positions(s, ".") : i > at}
     IN /\ at > 1
        /\ Positions(s, ".") \cap {1, at - 1} = {}
        /\ dots # {}
        /\ \A i \in dots : i > at + 1 /\ i < Len(s) - 1 /\ (i + 1) \notin dots

\* .not().isEmpty(): the string has at least one character (nothing is trimmed)
NotEmpty(s) == Len(s) > 0

\* .isLength({ min })
IsLength(s, min) == Len(s) >= min

\* .exists(): the field is not undefined
Exists(body, f) == f \in DOMAIN body

Passes(rule, body) ==
  CASE rule.test = "notEmpty" -> NotEmpty(Field(body, rule.field))
    [] rule.test = "isEmail" -> IsEmail(Field(body, rule.field))
    [] rule.test = "isLength" -> IsLength(Field(body, rule.field), MinPasswordLen)
    [] rule.test = "exists" -> Exists(body, rule.field)

SignupRules ==
  << [field |-> "fullName", msg |-> "Full name is required", test |-> "notEmpty"],
     [field |-> "username", msg |-> "Username is required", test |-> "notEmpty"],
     [field |-> "email", msg |-> "Please include a valid email", test |-> "isEmail"],
     [field |-> "password", msg |-> "Please enter a password with 6 or more characters",
      test |-> "isLength"] >>

SigninRules ==
  << [field |-> "email", msg |-> "Please include a valid email", test |-> "isEmail"],
     [field |-> "password", msg |-> "Password is required", test |-> "exists"] >>

\* the run stops at the first rule that fails
RunRules_FirstOnly(rules, body) ==
  LET failed == {i \in 1..Len(rules) : ~Passes(rules[i], body)}
  IN IF failed = {} THEN <<>>
     ELSE LET i == CHOOSE j \in failed : \A k \in failed : j <= k
          IN <<[msg |-> rules[i].msg, param |-> rules[i].field]>>

RECURSIVE RunRules(_, _)
RunRules(rules, body) ==
  IF rules = <<>> THEN <<>>
  ELSE LET r == Head(rules)
       IN (IF Passes(r, body) THEN <<>> ELSE <<[msg |-> r.msg, param |-> r.field]>>)
            \o RunRules(Tail(rules), body)

\* validationResult(req).array(): one error per failed rule, in declaration order
validationResult(rules, body) == RunRules(rules, body)

(* -------------------------------- bcrypt ------------------------------- *)
\* the random part of a salt
Nonce(n) == "n" \o ToString(n)

\* bcrypt.genSalt(rounds): '$' cost '$' random value
genSalt(rounds, n) == <<"$", ToString(rounds), "$", Nonce(n)>>
SaltLen == Len(genSalt(SaltRounds, 1))

\* the digest is the plaintext
bcryptHash_Plain(s, salt) == s

\* bcrypt.hash(s, salt): a digest string that starts with the salt it was made with
bcryptHash(s, salt) == salt \o <<"#">> \o s

\* any digest compares true
bcryptCompare_Loose(s, hash) == Len(hash) > SaltLen

\* bcrypt.compare(s, hash): hash s again with the salt embedded in hash and
\* compare; a string that is no digest compares false
bcryptCompare(s, hash) ==
  /\ Len(hash) > SaltLen
  /\ bcryptHash(s, SubSeq(hash, 1, SaltLen)) = hash

(* ------------------------------ jsonwebtoken --------------------------- *)
\* jwt.sign(payload, secret, { expiresIn: '24h' })
jwtSign(payload, secret) == [payload |-> payload, expiresIn |-> ExpiresInHours, key |-> secret]

\* the payload names another document
Payload_Other(user) == [user |-> [id |-> user.id + 1]]
Payload(user) == [user |-> [id |-> user.id]]

(* -------------------------------- state -------------------------------- *)
VARIABLES
  env,         \* process.env.NODE_ENV
  secret,      \* process.env.JWT_SECRET: <<>> when unset, else <<key>>
  alive,       \* the Node process is running
  users,       \* the User collection
  nextId,      \* the next fresh document id
  cookie,      \* the client's cookie named token: <<>> when absent, else <<value>>
  pc,          \* per request: the await its handler is suspended at
  kind,        \* per request: "signup", "signin" or "signout"
  body,        \* per request: req.body
  user,        \* per request: the handler's local user, <<>> when null
  salt,        \* per request: the handler's local salt
  resp,        \* per request: the response sent
  sent,        \* per request: how many responses were sent
  faults,      \* faults injected so far
  fault,       \* per request: the step that failed, "none" when none did
  effects,     \* per request: the store, bcrypt and jwt calls the handler made
  inflight,    \* per request: the requests that were in flight when it arrived
  registered,  \* the <<email, password>> pairs of the signups answered with a token
  regAtStart   \* per request: registered, when it arrived

config == <<env, secret>>
store == <<users, nextId>>
locals == <<kind, body, user, salt>>
ghost == <<fault, effects, inflight, registered, regAtStart>>
vars == <<env, secret, alive, users, nextId, cookie, pc, kind, body, user, salt, resp,
          sent, faults, fault, effects, inflight, registered, regAtStart>>

NoResponse ==
  [status |-> 0, errors |-> <<>>, token |-> <<>>, msg |-> "", text |-> "", setCookie |-> <<>>]

\* res.status(400).json({ errors })
BadRequest(errors) == [NoResponse EXCEPT !.status = 400, !.errors = errors]

\* res.status(500).send('Server error')
ServerError == [NoResponse EXCEPT !.status = 500, !.text = "Server error"]

\* the cookie is marked secure in every environment
SetCookie_AlwaysSecure(token, nodeEnv) ==
  [op |-> "set", name |-> "token", value |-> <<token>>, httpOnly |-> TRUE,
   secure |-> TRUE, maxAge |-> <<>>]

\* res.cookie('token', token, { httpOnly: true, secure: NODE_ENV === 'production' })
SetCookie(token, nodeEnv) ==
  [op |-> "set", name |-> "token", value |-> <<token>>, httpOnly |-> TRUE,
   secure |-> (nodeEnv = "production"), maxAge |-> <<>>]

\* res.clearCookie('token')
ClearCookie ==
  [op |-> "clear", name |-> "token", value |-> <<>>, httpOnly |-> FALSE,
   secure |-> FALSE, maxAge |-> <<>>]

\* the token is sent in the body only
TokenResponse_NoCookie(token, nodeEnv) ==
  [NoResponse EXCEPT !.status = 200, !.token = <<token>>]

\* res.cookie(...); res.json({ token })
TokenResponse(token, nodeEnv) ==
  [NoResponse EXCEPT !.status = 200, !.token = <<token>>,
                     !.setCookie = <<SetCookie(token, nodeEnv)>>]

\* res.clearCookie('token'); res.json({ msg })
SignoutResponse ==
  [NoResponse EXCEPT !.status = 200, !.msg = "Signed out successfully",
                     !.setCookie = <<ClearCookie>>]

\* the answer names the field that clashed
DuplicateUser_Told == BadRequest(<<[msg |-> "Email already registered"]>>)
DuplicateUser == BadRequest(<<[msg |-> "User already exists"]>>)
\* the answer when the lookup finds no user
NoSuchUser == BadRequest(<<[msg |-> "Invalid Credentials"]>>)
\* the answer when the password does not match
PasswordMismatch_Told == BadRequest(<<[msg |-> "Wrong password"]>>)
PasswordMismatch == BadRequest(<<[msg |-> "Invalid Credentials"]>>)

\* User.findOne({ email }): the documents the query matches
findOne(email) == {u \in users : u.email = email}

\* the collection has no unique index
DuplicateKey_NoIndex(doc) == FALSE

\* the unique index on email rejects a second document with the same email
DuplicateKey(doc) == \E u \in users : u.email = doc.email

InFlight == {r \in Reqs : pc[r] \notin {"idle", "done", "lost"}}

Init ==
  /\ env \in {"production", "development"}
  /\ secret \in {<<>>, <<"k">>}
  /\ alive = TRUE
  /\ users = {}
  /\ nextId = 1
  /\ cookie = <<>>
  /\ pc = [r \in Reqs |-> "idle"]
  /\ kind = [r \in Reqs |-> "none"]
  /\ body = [r \in Reqs |-> EmptyBody]
  /\ user = [r \in Reqs |-> <<>>]
  /\ salt = [r \in Reqs |-> <<>>]
  /\ resp = [r \in Reqs |-> NoResponse]
  /\ sent = [r \in Reqs |-> 0]
  /\ faults = 0
  /\ fault = [r \in Reqs |-> "none"]
  /\ effects = [r \in Reqs |-> {}]
  /\ inflight = [r \in Reqs |-> {}]
  /\ registered = {}
  /\ regAtStart = [r \in Reqs |-> {}]

(* ------------------------------- helpers ------------------------------- *)
\* the request arrives: requests are numbered in their order of arrival
Arrive(r, k, b) ==
  /\ alive
  /\ pc[r] = "idle"
  /\ \A q \in Reqs : q < r => pc[q] # "idle"
  /\ Cardinality(InFlight) < MaxInFlight
  /\ kind' = [kind EXCEPT ![r] = k]
  /\ body' = [body EXCEPT ![r] = b]
  /\ inflight' = [inflight EXCEPT ![r] = InFlight]
  /\ regAtStart' = [regAtStart EXCEPT ![r] = registered]

\* the handler is resumed at the await it is suspended at
Resume(r, k, at) == alive /\ kind[r] = k /\ pc[r] = at

\* the handler sends its response and ends
Reply(r, response) ==
  /\ resp' = [resp EXCEPT ![r] = response]
  /\ sent' = [sent EXCEPT ![r] = @ + 1]
  /\ pc' = [pc EXCEPT ![r] = "done"]

\* the handler suspends at its next await, having made the call it awaits
Await(r, next) ==
  /\ pc' = [pc EXCEPT ![r] = next]
  /\ effects' = [effects EXCEPT ![r] = @ \cup {next}]
  /\ UNCHANGED <<resp, sent>>

\* catch (err) { console.error(err.message); res.status(500).send('Server error') }
Catch(r, step) ==
  /\ Reply(r, ServerError)
  /\ fault' = [fault EXCEPT ![r] = step]

\* the awaited promise is rejected: the handler's catch block answers
Rejected(r, step) ==
  /\ faults < MaxFaults
  /\ faults' = faults + 1
  /\ Catch(r, step)
  /\ UNCHANGED <<config, alive, store, cookie, locals, effects, inflight, registered,
                 regAtStart>>

(* ------------------------------ POST /signup --------------------------- *)
\* the 400 answer is sent without return: the handler goes on to the lookup
SignupValidate_NoReturn(r) ==
  \E b \in SignupBodies :
    /\ Arrive(r, "signup", b)
    /\ LET errors == validationResult(SignupRules, b)
       IN /\ resp' = [resp EXCEPT ![r] = IF errors # <<>> THEN BadRequest(errors) ELSE @]
          /\ sent' = [sent EXCEPT ![r] = IF errors # <<>> THEN @ + 1 ELSE @]
          /\ pc' = [pc EXCEPT ![r] = "findOne"]
          /\ effects' = [effects EXCEPT ![r] = @ \cup {"findOne"}]
    /\ UNCHANGED <<config, alive, store, cookie, user, salt, faults, fault, registered>>

\* validation; on success the handler awaits User.findOne({ email })
SignupValidate(r) ==
  \E b \in SignupBodies :
    /\ Arrive(r, "signup", b)
    /\ LET errors == validationResult(SignupRules, b)
       IN IF errors # <<>>
          THEN Reply(r, BadRequest(errors)) /\ UNCHANGED effects
          ELSE Await(r, "findOne")
    /\ UNCHANGED <<config, alive, store, cookie, user, salt, faults, fault, registered>>

\* the lookup resolves: duplicate answer, or new User(...) and await bcrypt.genSalt(10)
SignupFindOne(r) ==
  /\ Resume(r, "signup", "findOne")
  /\ \/ Rejected(r, "findOne")
     \/ /\ findOne(body[r].email) # {}
        /\ \E u \in findOne(body[r].email) : user' = [user EXCEPT ![r] = <<u>>]
        /\ Reply(r, DuplicateUser)
        /\ UNCHANGED <<config, alive, store, cookie, kind, body, salt, faults, ghost>>
     \/ /\ findOne(body[r].email) = {}
        /\ user' = [user EXCEPT ![r] =
                      <<[id |-> nextId, fullName |-> body[r].fullName,
                         username |-> body[r].username, email |-> body[r].email,
                         password |-> body[r].password]>>]
        /\ nextId' = nextId + 1
        /\ Await(r, "genSalt")
        /\ UNCHANGED <<config, alive, users, cookie, kind, body, salt, faults, fault,
                       inflight, registered, regAtStart>>

\* the salt is there; the handler awaits bcrypt.hash(password, salt)
SignupGenSalt(r) ==
  /\ Resume(r, "signup", "genSalt")
  /\ \/ Rejected(r, "genSalt")
     \/ /\ \E n \in 1..NumSalts : salt' = [salt EXCEPT ![r] = genSalt(SaltRounds, n)]
        /\ Await(r, "hash")
        /\ UNCHANGED <<config, alive, store, cookie, kind, body, user, faults, fault,
                       inflight, registered, regAtStart>>

\* user.password = the digest; the handler awaits user.save()
SignupHash(r) ==
  /\ Resume(r, "signup", "hash")
  /\ \/ Rejected(r, "hash")
     \/ /\ user' = [user EXCEPT ![r] =
                      <<[user[r][1] EXCEPT !.password = bcryptHash(body[r].password, salt[r])]>>]
        /\ Await(r, "save")
        /\ UNCHANGED <<config, alive, store, cookie, kind, body, salt, faults, fault,
                       inflight, registered, regAtStart>>

\* jwt.sign(payload, secret, options, callback) fails at once when the secret is
\* unset: the callback throws inside the try block; otherwise it signs later
SignOrThrow(r) ==
  IF secret = <<>>
  THEN Catch(r, "secret") /\ UNCHANGED effects
  ELSE Await(r, "sign") /\ UNCHANGED fault

\* the record is removed again when jwt.sign fails at once
SignupSave_Rollback(r) ==
  /\ Resume(r, "signup", "save")
  /\ \/ Rejected(r, "save")
     \/ /\ DuplicateKey(user[r][1])
        /\ Catch(r, "duplicateKey")
        /\ UNCHANGED <<config, alive, store, cookie, locals, faults, effects, inflight,
                       registered, regAtStart>>
     \/ /\ ~DuplicateKey(user[r][1])
        /\ users' = IF secret = <<>> THEN users ELSE users \cup {user[r][1]}
        /\ SignOrThrow(r)
        /\ UNCHANGED <<config, alive, nextId, cookie, locals, faults, inflight,
                       registered, regAtStart>>

\* the save resolves (or the unique index rejects it); then jwt.sign is called
SignupSave(r) ==
  /\ Resume(r, "signup", "save")
  /\ \/ Rejected(r, "save")
     \/ /\ DuplicateKey(user[r][1])
        /\ Catch(r, "duplicateKey")
        /\ UNCHANGED <<config, alive, store, cookie, locals, faults, effects, inflight,
                       registered, regAtStart>>
     \/ /\ ~DuplicateKey(user[r][1])
        /\ users' = users \cup {user[r][1]}
        /\ SignOrThrow(r)
        /\ UNCHANGED <<config, alive, nextId, cookie, locals, faults, inflight,
                       registered, regAtStart>>

\* the jwt.sign callback: if (err) throw err; res.cookie(...); res.json({ token }).
\* It runs outside the handler's try block: a throw ends the process
SignCallback(r, k) ==
  /\ Resume(r, k, "sign")
  /\ \/ /\ faults < MaxFaults
        /\ faults' = faults + 1
        /\ alive' = FALSE
        /\ pc' = [pc EXCEPT ![r] = "lost"]
        /\ fault' = [fault EXCEPT ![r] = "sign"]
        /\ UNCHANGED <<config, store, cookie, locals, resp, sent, effects, inflight,
                       registered, regAtStart>>
     \/ /\ LET token == jwtSign(Payload(user[r][1]), secret[1])
           IN /\ Reply(r, TokenResponse(token, env))
              /\ cookie' = <<token>>
        /\ registered' = IF k = "signup"
                         THEN registered \cup {<<body[r].email, body[r].password>>}
                         ELSE registered
        /\ UNCHANGED <<config, alive, store, locals, faults, fault, effects, inflight,
                       regAtStart>>

SignupSigned(r) == SignCallback(r, "signup")

(* ------------------------------ POST /signin --------------------------- *)
\* validation; on success the handler awaits User.findOne({ email })
SigninValidate(r) ==
  \E b \in SigninBodies :
    /\ Arrive(r, "signin", b)
    /\ LET errors == validationResult(SigninRules, b)
       IN IF errors # <<>>
          THEN Reply(r, BadRequest(errors)) /\ UNCHANGED effects
          ELSE Await(r, "findOne")
    /\ UNCHANGED <<config, alive, store, cookie, user, salt, faults, fault, registered>>

\* the lookup is an upsert: it stores a document when it finds none
SigninFindOne_Upsert(r) ==
  /\ Resume(r, "signin", "findOne")
  /\ \/ Rejected(r, "findOne")
     \/ /\ findOne(body[r].email) = {}
        /\ users' = users \cup {[id |-> nextId, fullName |-> <<>>, username |-> <<>>,
                                 email |-> body[r].email, password |-> <<>>]}
        /\ nextId' = nextId + 1
        /\ Reply(r, NoSuchUser)
        /\ UNCHANGED <<config, alive, cookie, locals, faults, ghost>>
     \/ /\ \E u \in findOne(body[r].email) : user' = [user EXCEPT ![r] = <<u>>]
        /\ Await(r, "compare")
        /\ UNCHANGED <<config, alive, store, cookie, kind, body, salt, faults, fault,
                       inflight, registered, regAtStart>>

\* the lookup resolves: no user, or await bcrypt.compare(password, user.password)
SigninFindOne(r) ==
  /\ Resume(r, "signin", "findOne")
  /\ \/ Rejected(r, "findOne")
     \/ /\ findOne(body[r].email) = {}
        /\ Reply(r, NoSuchUser)
        /\ UNCHANGED <<config, alive, store, cookie, locals, faults, ghost>>
     \/ /\ \E u \in findOne(body[r].email) : user' = [user EXCEPT ![r] = <<u>>]
        /\ Await(r, "compare")
        /\ UNCHANGED <<config, alive, store, cookie, kind, body, salt, faults, fault,
                       inflight, registered, regAtStart>>

\* the comparison resolves: mismatch, or jwt.sign is called
SigninCompare(r) ==
  /\ Resume(r, "signin", "compare")
  /\ \/ Rejected(r, "compare")
     \/ /\ ~bcryptCompare(body[r].password, user[r][1].password)
        /\ Reply(r, PasswordMismatch)
        /\ UNCHANGED <<config, alive, store, cookie, locals, faults, ghost>>
     \/ /\ bcryptCompare(body[r].password, user[r][1].password)
        /\ SignOrThrow(r)
        /\ UNCHANGED <<config, alive, store, cookie, locals, faults, inflight,
                       registered, regAtStart>>

SigninSigned(r) == SignCallback(r, "signin")

(* ------------------------------ POST /signout -------------------------- *)
\* the cookie is left as it is
Signout_KeepsCookie(r) ==
  /\ Arrive(r, "signout", EmptyBody)
  /\ Reply(r, [SignoutResponse EXCEPT !.setCookie = <<>>])
  /\ UNCHANGED <<config, alive, store, cookie, user, salt, faults, fault, effects,
                 registered>>

\* res.clearCookie('token'); res.json({ msg: 'Signed out successfully' })
Signout(r) ==
  /\ Arrive(r, "signout", EmptyBody)
  /\ Reply(r, SignoutResponse)
  /\ cookie' = <<>>
  /\ UNCHANGED <<config, alive, store, user, salt, faults, fault, effects, registered>>

Next ==
  \E r \in Reqs :
    \/ SignupValidate(r)
    \/ SignupFindOne(r)
    \/ SignupGenSalt(r)
    \/ SignupHash(r)
    \/ SignupSave(r)
    \/ SignupSigned(r)
    \/ SigninValidate(r)
    \/ SigninFindOne(r)
    \/ SigninCompare(r)
    \/ SigninSigned(r)
    \/ Signout(r)

Spec == Init /\ [][Next]_vars

(* ------------------------------ properties ----------------------------- *)
Answered(r) == pc[r] = "done"
ValidSignup(r) == kind[r] = "signup" /\ validationResult(SignupRules, body[r]) = <<>>
ValidSignin(r) == kind[r] = "signin" /\ validationResult(SigninRules, body[r]) = <<>>
Invalid(r) ==
  \/ kind[r] = "signup" /\ validationResult(SignupRules, body[r]) # <<>>
  \/ kind[r] = "signin" /\ validationResult(SigninRules, body[r]) # <<>>
HasToken(r) == resp[r].status = 200 /\ resp[r].token # <<>>
StoredWith(email) == {u \in users : u.email = email}
IsAnswer(response, status, message) ==
  /\ response.status = status
  /\ response.errors = <<[msg |-> message]>>
  /\ response.token = <<>>
  /\ response.setCookie = <<>>
IsServerError(response) ==
  /\ response.status = 500
  /\ response.text = "Server error"
  /\ response.errors = <<>>
  /\ response.token = <<>>
  /\ response.setCookie = <<>>

\* C1: two valid signups with the same fresh email that run concurrently, with
\* the secret set and no injected fault, end with exactly one answered 200 with a
\* token and the other answered 400 "User already exists", also when only the
\* unique index detects the conflict; one user is stored for the email.
C1_ConcurrentSignups ==
  \A r1, r2 \in Reqs :
    ( /\ r1 < r2
      /\ r1 \in inflight[r2]
      /\ ValidSignup(r1) /\ ValidSignup(r2)
      /\ body[r1].email = body[r2].email
      /\ \A q \in Reqs \ {r1, r2} : ValidSignup(q) => body[q].email # body[r1].email
      /\ Answered(r1) /\ Answered(r2)
      /\ fault[r1] \in {"none", "duplicateKey"}
      /\ fault[r2] \in {"none", "duplicateKey"} )
    => /\ \E w, l \in {r1, r2} :
            /\ w # l
            /\ HasToken(w)
            /\ IsAnswer(resp[l], 400, "User already exists")
       /\ Cardinality(StoredWith(body[r1].email)) = 1

\* C2: a signin whose lookup finds no user and a signin whose password does not
\* match the user found are both answered 400 {errors:[{msg:"Invalid Credentials"}]}
\* with no cookie: the two responses are equal.
C2_SigninIndistinguishable ==
  \A r1, r2 \in Reqs :
    ( /\ ValidSignin(r1) /\ Answered(r1) /\ fault[r1] = "none"
      /\ user[r1] = <<>>
      /\ ValidSignin(r2) /\ Answered(r2) /\ fault[r2] = "none"
      /\ user[r2] # <<>>
      /\ ~bcryptCompare(body[r2].password, user[r2][1].password) )
    => /\ IsAnswer(resp[r1], 400, "Invalid Credentials")
       /\ IsAnswer(resp[r2], 400, "Invalid Credentials")
       /\ resp[r1] = resp[r2]

C2_Witness ==
  \E r1, r2 \in Reqs :
    /\ ValidSignin(r1) /\ Answered(r1) /\ fault[r1] = "none" /\ user[r1] = <<>>
    /\ ValidSignin(r2) /\ Answered(r2) /\ fault[r2] = "none" /\ user[r2] # <<>>
    /\ body[r2].password = Wrong
    /\ resp[r2].status = 400

\* C3: a valid signup whose lookup finds no user with its email and none of
\* whose steps fails is answered 200 with a token; then exactly one stored user
\* has the email, and that user's stored password is not the submitted password
\* and verifies against it.
C3_FreshSignup ==
  \A r \in Reqs :
    ( /\ ValidSignup(r) /\ Answered(r) /\ fault[r] = "none"
      /\ "genSalt" \in effects[r] )
    => /\ HasToken(r)
       /\ Cardinality(StoredWith(body[r].email)) = 1
       /\ \A u \in StoredWith(body[r].email) :
            /\ u.password # body[r].password
            /\ bcryptCompare(body[r].password, u.password)

C3_Witness ==
  \E r \in Reqs :
    /\ ValidSignup(r) /\ Answered(r) /\ fault[r] = "none"
    /\ HasToken(r)
    /\ \E u \in users : u.email = body[r].email /\ u.id = user[r][1].id

\* C4: a signup or signin that breaks a validation rule is answered 400 in the
\* step it arrives in, having made no store, bcrypt or jwt call and issued no
\* token; the stored users are unchanged, and the handler does nothing afterwards.
C4_ValidationShortCircuits ==
  /\ [](\A r \in Reqs : Invalid(r) =>
          /\ Answered(r)
          /\ resp[r].status = 400
          /\ resp[r].token = <<>>
          /\ effects[r] = {})
  /\ [][\A r \in Reqs : (pc[r] = "idle" /\ Invalid(r)') => users' = users]_vars

C4_Witness ==
  /\ users # {}
  /\ \E r1, r2 \in Reqs :
       /\ kind[r1] = "signup" /\ Invalid(r1) /\ Answered(r1)
       /\ kind[r2] = "signin" /\ Invalid(r2) /\ Answered(r2)

\* C5: when the lookup of a valid signup finds a stored user with its email, the
\* request is answered 400 with the one message "User already exists": nothing
\* is hashed, the stored users are unchanged, no token is issued, no cookie set.
C5_DuplicateSignup ==
  [][\A r \in Reqs :
       ( /\ kind[r] = "signup" /\ pc[r] = "findOne" /\ pc'[r] # "findOne"
         /\ StoredWith(body[r].email) # {}
         /\ faults' = faults )
       => /\ Answered(r)'
          /\ IsAnswer(resp'[r], 400, "User already exists")
          /\ effects'[r] = {"findOne"}
          /\ users' = users
          /\ cookie' = cookie]_vars

C5_Witness ==
  \E r \in Reqs :
    /\ ValidSignup(r) /\ Answered(r) /\ fault[r] = "none"
    /\ resp[r].status = 400
    /\ user[r] # <<>> /\ user[r][1] \in users

\* C6: no two stored users have the same email.
C6_UniqueEmail ==
  \A u1, u2 \in users : u1.email = u2.email => u1 = u2

C6_Witness ==
  /\ Cardinality(users) = 2
  /\ \E r \in Reqs : fault[r] = "duplicateKey"

\* C7: a signup or signin in which the lookup, the create, the hashing or the
\* signing failed is answered 500 "Server error", with no token and no cookie.
C7_FaultsAnswered500 ==
  \A r \in Reqs : fault[r] # "none" => IsServerError(resp[r])

\* C8: every signout is answered 200 {msg:"Signed out successfully"}, exactly
\* once, in the step it arrives in; that step leaves the cookie absent and the
\* stored users unchanged, whatever the cookie and the store were.
C8_SignoutAlwaysSucceeds ==
  /\ [](\A r \in Reqs : kind[r] = "signout" =>
          /\ Answered(r)
          /\ sent[r] = 1
          /\ resp[r].status = 200
          /\ resp[r].msg = "Signed out successfully"
          /\ resp[r].errors = <<>>
          /\ \E c \in {resp[r].setCookie[i] : i \in 1..Len(resp[r].setCookie)} :
               c.op = "clear" /\ c.name = "token")
  /\ [][\A r \in Reqs : (pc[r] = "idle" /\ kind'[r] = "signout")
          => cookie' = <<>> /\ users' = users]_vars

C8_Witness ==
  \E r1, r2, r3 \in Reqs :
    /\ r1 < r2 /\ r2 < r3
    /\ HasToken(r1) /\ inflight[r2] = {}
    /\ kind[r2] = "signout" /\ kind[r3] = "signout"
    /\ resp[r2] = resp[r3]
    /\ cookie = <<>>

\* C9: a signin that arrives after a signup with email e and password p was
\* answered with a token, and none of whose steps fails, is answered 200 with a
\* token when it submits e and p, and 400 "Invalid Credentials" when it submits e
\* and another password.
C9_SigninAfterSignup ==
  \A r \in Reqs :
    ( /\ kind[r] = "signin" /\ Answered(r) /\ fault[r] = "none"
      /\ "password" \in DOMAIN body[r] /\ "email" \in DOMAIN body[r] )
    => \A reg \in regAtStart[r] :
         reg[1] = body[r].email =>
           IF reg[2] = body[r].password
           THEN HasToken(r)
           ELSE IsAnswer(resp[r], 400, "Invalid Credentials")

C9_Witness ==
  \E r1, r2 \in Reqs :
    /\ kind[r1] = "signin" /\ HasToken(r1) /\ regAtStart[r1] # {}
    /\ kind[r2] = "signin" /\ Answered(r2) /\ fault[r2] = "none"
    /\ regAtStart[r2] # {} /\ body[r2] = With(GoodSignin, "password", Wrong)
    /\ resp[r2].status = 400

\* C10: a signin answered with a token found a stored user with the submitted
\* email whose stored hash the submitted password verifies against, and the
\* token carries that user's id; a signup answered with a token stored a user
\* with the submitted email, and the token carries that user's id.
C10_TokenNamesTheUser ==
  \A r \in Reqs :
    (Answered(r) /\ resp[r].token # <<>>) =>
      /\ kind[r] \in {"signup", "signin"}
      /\ user[r] # <<>>
      /\ LET u == user[r][1]
         IN /\ u \in users
            /\ u.email = body[r].email
            /\ resp[r].token[1].payload = [user |-> [id |-> u.id]]
            /\ \A v \in users : v.id = u.id => v = u
            /\ kind[r] = "signin" => bcryptCompare(body[r].password, u.password)
            /\ kind[r] = "signup" => "save" \in effects[r] /\ fault[r] = "none"

C10_Witness ==
  \E r1, r2 \in Reqs :
    /\ kind[r1] = "signup" /\ HasToken(r1)
    /\ kind[r2] = "signin" /\ HasToken(r2)
    /\ Cardinality(users) = 2
    /\ user[r2][1].id # user[r1][1].id

\* C11: the 400 answer to an invalid signup or signin lists exactly one error
\* for every rule the body violates, in the order the rules are declared.
C11_AllErrorsInOrder ==
  \A r \in Reqs :
    (kind[r] \in {"signup", "signin"} /\ pc[r] # "idle") =>
      LET rules == IF kind[r] = "signup" THEN SignupRules ELSE SigninRules
          failed == {i \in 1..Len(rules) : ~Passes(rules[i], body[r])}
          errors == resp[r].errors
      IN failed # {} =>
           /\ Answered(r) /\ resp[r].status = 400
           /\ Len(errors) = Cardinality(failed)
           /\ \A k \in 1..Len(errors) :
                \E i \in failed :
                  /\ Cardinality({j \in failed : j <= i}) = k
                  /\ errors[k].param = rules[i].field
                  /\ errors[k].msg = rules[i].msg

C11_Witness ==
  \E r1, r2 \in Reqs :
    /\ kind[r1] = "signup" /\ Answered(r1) /\ Len(resp[r1].errors) = Len(SignupRules)
    /\ kind[r2] = "signin" /\ Answered(r2) /\ Len(resp[r2].errors) = Len(SigninRules)

IsBlank(s) == \A i \in 1..Len(s) : s[i] = " "

\* C12: a signup whose fullName or username is empty after trimming (missing,
\* empty or only whitespace) is answered 400 with validation errors and makes
\* no call to the store.
C12_BlankNamesRejected ==
  \A r \in Reqs :
    ( /\ kind[r] = "signup" /\ pc[r] # "idle"
      /\ \/ IsBlank(Field(body[r], "fullName"))
         \/ IsBlank(Field(body[r], "username")) )
    => /\ Answered(r)
       /\ resp[r].status = 400
       /\ resp[r].errors # <<>>
       /\ effects[r] = {}

\* C13: the response of a signup or signin sets a cookie exactly when it is a
\* 200 response with a token; the cookie is named token and its value is the
\* token of the body; the client's cookie changes only in a step that answers
\* with a token or signs out.
C13_CookieIffToken ==
  /\ [](\A r \in Reqs :
          (kind[r] \in {"signup", "signin"} /\ Answered(r)) =>
            /\ (resp[r].setCookie # <<>>) <=> HasToken(r)
            /\ resp[r].status \in {400, 500} => resp[r].setCookie = <<>>
            /\ HasToken(r) =>
                 /\ Len(resp[r].setCookie) = 1
                 /\ resp[r].setCookie[1].op = "set"
                 /\ resp[r].setCookie[1].name = "token"
                 /\ resp[r].setCookie[1].value = resp[r].token
                 /\ resp[r].status = 200)
  /\ [][cookie' # cookie =>
          \E r \in Reqs :
            /\ pc[r] # "done" /\ pc'[r] = "done"
            /\ \/ kind'[r] = "signout"
               \/ HasToken(r)' /\ cookie' = resp'[r].token]_vars

C13_Witness ==
  \E r1, r2, r3 \in Reqs :
    /\ HasToken(r1) /\ cookie = resp[r1].token
    /\ r1 < r2 /\ r1 \notin inflight[r2] /\ Answered(r2) /\ resp[r2].status = 400
    /\ r1 < r3 /\ r1 \notin inflight[r3] /\ Answered(r3) /\ resp[r3].status = 500

\* C14: every cookie set by signup or signin is httpOnly, is secure exactly
\* when NODE_ENV is production, and has no max-age or expiry.
C14_CookieFlags ==
  \A r \in Reqs :
    \A i \in 1..Len(resp[r].setCookie) :
      resp[r].setCookie[i].op = "set" =>
        /\ resp[r].setCookie[i].httpOnly = TRUE
        /\ resp[r].setCookie[i].secure = (env = "production")
        /\ resp[r].setCookie[i].maxAge = <<>>

C14_Witness ==
  /\ env = "development"
  /\ \E r1, r2 \in Reqs :
       /\ kind[r1] = "signup" /\ HasToken(r1) /\ resp[r1].setCookie[1].secure = FALSE
       /\ kind[r2] = "signin" /\ HasToken(r2) /\ resp[r2].setCookie[1].secure = FALSE

\* C15: a signup whose handler has ended without a 200 answer with a token has
\* left no user record of its own in the store.
C15_FailedSignupStoresNothing ==
  \A r \in Reqs :
    ( /\ kind[r] = "signup" /\ pc[r] \in {"done", "lost"}
      /\ ~HasToken(r) /\ "save" \in effects[r] )
    => \A u \in users : u.id # user[r][1].id

\* C15 as amended: the stored users change only when a signup's save succeeds,
\* which adds that signup's record; a signup whose handler has ended without a
\* 200 answer with a token has left its record in the store exactly when the
\* signing failed after the save, and then the record stays.
Own(r) == {u \in users : "genSalt" \in effects[r] /\ u.id = user[r][1].id}

C15_OnlySaveStores ==
  /\ [](\A r \in Reqs :
          (kind[r] = "signup" /\ pc[r] \in {"done", "lost"} /\ ~HasToken(r)) =>
            Own(r) = IF fault[r] \in {"secret", "sign"} THEN {user[r][1]} ELSE {})
  /\ [][users' # users =>
          \E r \in Reqs :
            /\ kind[r] = "signup" /\ pc[r] = "save" /\ pc'[r] # "save"
            /\ users' = users \cup {user[r][1]}]_vars

C15_Witness ==
  \E r \in Reqs :
    /\ kind[r] = "signup" /\ Answered(r) /\ resp[r].status = 500
    /\ fault[r] = "secret"
    /\ user[r][1] \in users /\ user[r][1].email = body[r].email

\* C16: no step of a signin or signout handler changes the stored users or the
\* document ids, whatever the handler answers.
C16_SigninSignoutFrame ==
  [][(\E r \in Reqs : pc'[r] # pc[r] /\ kind'[r] \in {"signin", "signout"})
       => users' = users /\ nextId' = nextId]_vars

C16_Witness ==
  /\ users # {}
  /\ \E r1, r2 \in Reqs :
       /\ kind[r1] = "signin" /\ HasToken(r1)
       /\ kind[r2] = "signout" /\ Answered(r2)

\* C17: no request is answered twice, and a request whose handler has ended,
\* or whose process has ended, has been answered exactly once.
C17_ExactlyOneResponse ==
  \A r \in Reqs :
    /\ sent[r] <= 1
    /\ (pc[r] \in {"done", "lost"} \/ (~alive /\ pc[r] # "idle")) => sent[r] = 1

====
